---- MODULE Spec2Model ----
(***************************************************************************)
(* Model of marked_cylindrical_isolation_engine                           *)
(* (halotools/mock_observables/isolation_functions/engines/               *)
(*  marked_cylindrical_isolation_engine.pyx).                             *)
(*                                                                         *)
(* Coordinates, radii and weights are integers, so every comparison of    *)
(* the kernel is exact.  Arrays are functions over 0..n-1, as in the      *)
(* source.  One behaviour is a sequence of invocations of the engine on   *)
(* the same inputs, one per work range of `pending`.                      *)
(***************************************************************************)
EXTENDS Integers, Sequences, FiniteSets

VARIABLES
    \* ---- arguments of the engine (read only) ----
    double_mesh,        \* RectangularDoubleMesh: periods, PBCs, search lengths, mesh1, mesh2
    x1in, y1in, z1in,   \* sample 1 coordinates, caller's order
    x2in, y2in, z2in,   \* sample 2 coordinates, caller's order
    weights1in,         \* sample 1 weight vectors
    weights2in,         \* sample 2 weight vectors
    weight_func_idin,   \* integer id of the conditional function
    rp_max, pi_max,     \* per-point search radii of sample 1, caller's order
    cell1_tuple,        \* <<first, last>>: work range of this invocation
    \* ---- locals of the engine ----
    pc,                 \* position in the engine
    wfunc,              \* the function pointer returned by return_conditional_function
    garbage,            \* what a call through a null wfunc yields when it comes back
    has_neighbor,       \* int64 array over sorted positions of sample 1
    icell1,             \* loop variable of line 150
    nonPBC,             \* <<nonPBC_ix2, nonPBC_iy2, nonPBC_iz2>>: loop variables of lines 178-198
    new_is_isolated,    \* the returned array
    \* ---- the caller ----
    pending,            \* work ranges still to be handed to the engine
    returned,           \* the arrays returned by the completed invocations, with their ranges
    \* ---- observation of the scan (history) ----
    nvisit,             \* number of secondary-cell visits of this invocation so far
    scan_cell,          \* the primary cell the set `scanned` belongs to, -1 if none
    scanned,            \* secondary cells visited for scan_cell: [raw, icell2, visit]
    compared            \* pairs compared in this invocation: [i, j, visit, sh, hit]

inputs == <<double_mesh, x1in, y1in, z1in, x2in, y2in, z2in, weights1in,
            weights2in, weight_func_idin, rp_max, pi_max>>
locals == <<pc, wfunc, garbage, has_neighbor, icell1, nonPBC, new_is_isolated>>
caller == <<cell1_tuple, pending, returned>>
history == <<nvisit, scan_cell, scanned, compared>>
vars == <<inputs, locals, caller, history>>

----------------------------------------------------------------------------
(* Bounds of the model                                                     *)

\* search radii rp_max, pi_max range over 1..MaxRadius
MaxRadius == 2
\* first weight components range over 0..MaxWeight
MaxWeight == 1
\* conditional function ids range over -1..MaxFuncId
MaxFuncId == 7

Radii == 1..MaxRadius
Weights == 0..MaxWeight
FuncIds == (0 - 1)..MaxFuncId

\* The shape of a double mesh: divisions of mesh1, mesh2 divisions per mesh1
\* division, and the size of a mesh2 cell, per axis (x, y, z).
ShapeA == [n1 |-> <<2, 1, 1>>, ratio |-> <<1, 1, 1>>, cell2 |-> <<2, 3, 3>>]
ShapeB == [n1 |-> <<1, 2, 1>>, ratio |-> <<1, 1, 2>>, cell2 |-> <<3, 2, 1>>]
ShapeC == [n1 |-> <<4, 1, 1>>, ratio |-> <<1, 1, 1>>, cell2 |-> <<2, 3, 3>>]

Max(S) == CHOOSE m \in S : \A n \in S : n <= m
CeilDiv(a, b) == (a + b - 1) \div b
Len0(f) == Cardinality(DOMAIN f)
Zeros(n) == [s \in 0..(n - 1) |-> 0]

----------------------------------------------------------------------------
(* The external grid index (RectangularDoubleMesh), from its description   *)

PeriodOf(shape) == [a \in 1..3 |-> shape.n1[a] * shape.ratio[a] * shape.cell2[a]]

\* ix*(ydivs*zdivs) + iy*zdivs + iz
FlatIndex(ix, iy, iz, divs) == ix * (divs[2] * divs[3]) + iy * divs[3] + iz

\* the cell that contains a point
CellOf(x, y, z, divs, size) ==
    FlatIndex(x \div size[1], y \div size[2], z \div size[3], divs)

\* offset[c] = number of points in cells below c, for c in 0..ncells
CellIdIndices(cellids, ncells) ==
    [c \in 0..ncells |-> Cardinality({p \in DOMAIN cellids : cellids[p] < c})]

\* idx_sorted: a bijection on 0..n-1 listing the points by ascending cell
IsSortOrder(perm, cellids) ==
    /\ DOMAIN perm = DOMAIN cellids
    /\ \A p \in DOMAIN cellids : \E s \in DOMAIN perm : perm[s] = p
    /\ \A s, t \in DOMAIN perm : s < t => cellids[perm[s]] <= cellids[perm[t]]

RectangularMesh(divs, size, cellids, perm) ==
    [num_xdivs |-> divs[1], num_ydivs |-> divs[2], num_zdivs |-> divs[3],
     xcell_size |-> size[1], ycell_size |-> size[2], zcell_size |-> size[3],
     ncells |-> divs[1] * divs[2] * divs[3],
     idx_sorted |-> perm,
     cell_id_indices |-> CellIdIndices(cellids, divs[1] * divs[2] * divs[3])]

RectangularDoubleMesh(shape, PBCs, xs1, ys1, zs1, xs2, ys2, zs2, rp, pimax, perm1, perm2) ==
    LET divs1 == shape.n1
        divs2 == [a \in 1..3 |-> shape.n1[a] * shape.ratio[a]]
        size2 == shape.cell2
        size1 == [a \in 1..3 |-> shape.ratio[a] * shape.cell2[a]]
        ids1 == [p \in DOMAIN xs1 |-> CellOf(xs1[p], ys1[p], zs1[p], divs1, size1)]
        ids2 == [p \in DOMAIN xs2 |-> CellOf(xs2[p], ys2[p], zs2[p], divs2, size2)]
    IN [xperiod |-> PeriodOf(shape)[1], yperiod |-> PeriodOf(shape)[2],
        zperiod |-> PeriodOf(shape)[3],
        PBCs |-> PBCs,
        search_xlength |-> Max({rp[p] : p \in DOMAIN rp}),
        search_ylength |-> Max({rp[p] : p \in DOMAIN rp}),
        search_zlength |-> Max({pimax[p] : p \in DOMAIN pimax}),
        mesh1 |-> RectangularMesh(divs1, size1, ids1, perm1),
        mesh2 |-> RectangularMesh(divs2, size2, ids2, perm2)]

----------------------------------------------------------------------------
(* The conditional functions (isolation_criteria_marking_functions)        *)

NULL == "NULL"

\* the function behind a function pointer, applied to two weight vectors
CallConditional(f, w1, w2) ==
    CASE f = "trivial"  -> TRUE
      [] f = "gt_cond"  -> w1[0] > w2[0]
      [] f = "lt_cond"  -> w1[0] < w2[0]
      [] f = "eq_cond"  -> w1[0] = w2[0]
      [] f = "neq_cond" -> w1[0] # w2[0]
      [] f = "tg_cond"  -> w1[0] >= w2[0]
      [] f = "lg_cond"  -> w1[0] <= w2[0]

\* return_conditional_function: the pointer for an id, "raise" for the else branch
return_conditional_function_swapped(cond_func_id) ==
    IF cond_func_id = 0 THEN "trivial"
    ELSE IF cond_func_id = 1 THEN "lt_cond"
    ELSE IF cond_func_id = 2 THEN "gt_cond"
    ELSE IF cond_func_id = 3 THEN "eq_cond"
    ELSE IF cond_func_id = 4 THEN "neq_cond"
    ELSE IF cond_func_id = 5 THEN "tg_cond"
    ELSE IF cond_func_id = 6 THEN "lg_cond"
    ELSE "raise"

return_conditional_function(cond_func_id) ==
    IF cond_func_id = 0 THEN "trivial"
    ELSE IF cond_func_id = 1 THEN "gt_cond"
    ELSE IF cond_func_id = 2 THEN "lt_cond"
    ELSE IF cond_func_id = 3 THEN "eq_cond"
    ELSE IF cond_func_id = 4 THEN "neq_cond"
    ELSE IF cond_func_id = 5 THEN "tg_cond"
    ELSE IF cond_func_id = 6 THEN "lg_cond"
    ELSE "raise"

----------------------------------------------------------------------------
(* Set-up of the engine, lines 86-139                                      *)

Npts1 == Len0(x1in)
Npts2 == Len0(x2in)

\* lines 86-89: squared radii, taken in sorted order
rp_max_squared_unsorted == [s \in DOMAIN rp_max |-> rp_max[s] * rp_max[s]]

rp_max_squared ==
    [s \in DOMAIN rp_max |->
        rp_max[double_mesh.mesh1.idx_sorted[s]] * rp_max[double_mesh.mesh1.idx_sorted[s]]]

pi_max_squared ==
    [s \in DOMAIN pi_max |->
        pi_max[double_mesh.mesh1.idx_sorted[s]] * pi_max[double_mesh.mesh1.idx_sorted[s]]]

\* lines 102-109: coordinates and weights in sorted order
x1 == [s \in DOMAIN x1in |-> x1in[double_mesh.mesh1.idx_sorted[s]]]
y1 == [s \in DOMAIN y1in |-> y1in[double_mesh.mesh1.idx_sorted[s]]]
z1 == [s \in DOMAIN z1in |-> z1in[double_mesh.mesh1.idx_sorted[s]]]
x2 == [s \in DOMAIN x2in |-> x2in[double_mesh.mesh2.idx_sorted[s]]]
y2 == [s \in DOMAIN y2in |-> y2in[double_mesh.mesh2.idx_sorted[s]]]
z2 == [s \in DOMAIN z2in |-> z2in[double_mesh.mesh2.idx_sorted[s]]]
weights1 == [s \in DOMAIN weights1in |-> weights1in[double_mesh.mesh1.idx_sorted[s]]]
weights2 == [s \in DOMAIN weights2in |-> weights2in[double_mesh.mesh2.idx_sorted[s]]]

\* lines 112-113
cell1_indices == double_mesh.mesh1.cell_id_indices
cell2_indices == double_mesh.mesh2.cell_id_indices

\* lines 120-125
num_x2_covering_steps == CeilDiv(double_mesh.search_xlength, double_mesh.mesh2.xcell_size)
num_y2_covering_steps == CeilDiv(double_mesh.search_ylength, double_mesh.mesh2.ycell_size)
num_z2_covering_steps == CeilDiv(double_mesh.search_zlength, double_mesh.mesh2.zcell_size)

\* lines 131-139
num_x1divs == double_mesh.mesh1.num_xdivs
num_y1divs == double_mesh.mesh1.num_ydivs
num_z1divs == double_mesh.mesh1.num_zdivs
num_x2divs == double_mesh.mesh2.num_xdivs
num_y2divs == double_mesh.mesh2.num_ydivs
num_z2divs == double_mesh.mesh2.num_zdivs
num_x2_per_x1 == num_x2divs \div num_x1divs
num_y2_per_y1 == num_y2divs \div num_y1divs
num_z2_per_z1 == num_z2divs \div num_z1divs

num_2divs == <<num_x2divs, num_y2divs, num_z2divs>>
num_2_per_1 == <<num_x2_per_x1, num_y2_per_y1, num_z2_per_z1>>
num_2_covering_steps == <<num_x2_covering_steps, num_y2_covering_steps, num_z2_covering_steps>>
period == <<double_mesh.xperiod, double_mesh.yperiod, double_mesh.zperiod>>

----------------------------------------------------------------------------
(* Grid geometry of one primary cell, lines 166-176                        *)

\* lines 166-168: <<ix1, iy1, iz1>>
Cell1Coords(c) ==
    LET ix1 == c \div (num_y1divs * num_z1divs)
        iy1 == (c - ix1 * num_y1divs * num_z1divs) \div num_z1divs
        iz1 == c - (ix1 * num_y1divs * num_z1divs) - (iy1 * num_z1divs)
    IN <<ix1, iy1, iz1>>

\* lines 170-172
leftmost_no_cover(i1, a) == i1 * num_2_per_1[a]

leftmost(i1, a) == i1 * num_2_per_1[a] - num_2_covering_steps[a]

\* lines 174-176; range(leftmost, rightmost) stops before rightmost
rightmost_inclusive(i1, a) == (i1 + 1) * num_2_per_1[a] + num_2_covering_steps[a] + 1

rightmost(i1, a) == (i1 + 1) * num_2_per_1[a] + num_2_covering_steps[a]

\* lines 179-184 (and 189-194, 199-204): the shift of one axis
shift_ignoring_PBCs(raw, a) ==
    IF raw < 0 THEN 0 - period[a]
    ELSE IF raw >= num_2divs[a] THEN period[a]
    ELSE 0

shift(raw, a) ==
    IF raw < 0 THEN (0 - period[a]) * double_mesh.PBCs
    ELSE IF raw >= num_2divs[a] THEN period[a] * double_mesh.PBCs
    ELSE 0

\* lines 186, 196, 206, 208
Cell2Index(raw) ==
    LET ix2 == raw[1] % num_x2divs
        iy2 == raw[2] % num_y2divs
        iz2 == raw[3] % num_z2divs
    IN ix2 * (num_y2divs * num_z2divs) + iy2 * num_z2divs + iz2

\* the loop variables after one more step of the innermost loop (line 198),
\* <<>> when the three loops of lines 178-198 are over
NextRaw(c, raw) ==
    LET i1 == Cell1Coords(c)
    IN IF raw[3] + 1 < rightmost(i1[3], 3) THEN <<raw[1], raw[2], raw[3] + 1>>
       ELSE IF raw[2] + 1 < rightmost(i1[2], 2) THEN <<raw[1], raw[2] + 1, leftmost(i1[3], 3)>>
       ELSE IF raw[1] + 1 < rightmost(i1[1], 1)
            THEN <<raw[1] + 1, leftmost(i1[2], 2), leftmost(i1[3], 3)>>
       ELSE <<>>

----------------------------------------------------------------------------
(* The pair test and the loop over the points of a secondary cell,         *)
(* lines 223-243                                                           *)

\* line 239: weight = wfunc(&w_icell1[i,0], &w_icell2[j,0]); a call through a
\* null pointer that comes back yields ub
Weight(f, ub, w1, w2) ==
    IF f = NULL THEN ub
    ELSE IF CallConditional(f, w1, w2) THEN 1 ELSE 0

\* lines 224-241 for sorted positions s of sample 1 and t of sample 2
IsNeighborLeq(s, t, sh, f, ub) ==
    LET dx == (x1[s] - sh[1]) - x2[t]
        dy == (y1[s] - sh[2]) - y2[t]
        dz == (z1[s] - sh[3]) - z2[t]
        dxy_sq == dx * dx + dy * dy
        dz_sq == dz * dz
        weight == Weight(f, ub, weights1[s], weights2[t])
    IN (dxy_sq <= rp_max_squared[s]) /\ (dz_sq <= pi_max_squared[s])
         /\ (weight = 1) /\ ((dz_sq + dxy_sq) > 0)

IsNeighbor(s, t, sh, f, ub) ==
    LET dx == (x1[s] - sh[1]) - x2[t]
        dy == (y1[s] - sh[2]) - y2[t]
        dz == (z1[s] - sh[3]) - z2[t]
        dxy_sq == dx * dx + dy * dy
        dz_sq == dz * dz
        weight == Weight(f, ub, weights1[s], weights2[t])
    IN (dxy_sq < rp_max_squared[s]) /\ (dz_sq < pi_max_squared[s])
         /\ (weight = 1) /\ ((dz_sq + dxy_sq) > 0)

\* lines 231-243 from j on: whether has_neighbor is set, and the number of
\* secondary points of the cell that were compared
RECURSIVE InnerLoopNoBreak(_, _, _, _, _, _, _)
InnerLoopNoBreak(s, ifirst2, Nj, j, sh, f, ub) ==
    IF j >= Nj THEN [hit |-> FALSE, n |-> j]
    ELSE LET rest == InnerLoopNoBreak(s, ifirst2, Nj, j + 1, sh, f, ub)
         IN [hit |-> IsNeighbor(s, ifirst2 + j, sh, f, ub) \/ rest.hit, n |-> rest.n]

RECURSIVE InnerLoop(_, _, _, _, _, _, _)
InnerLoop(s, ifirst2, Nj, j, sh, f, ub) ==
    IF j >= Nj THEN [hit |-> FALSE, n |-> j]
    ELSE IF IsNeighbor(s, ifirst2 + j, sh, f, ub) THEN [hit |-> TRUE, n |-> j + 1]
    ELSE InnerLoop(s, ifirst2, Nj, j + 1, sh, f, ub)

\* the index of has_neighbor written for point i of the primary cell (line 242)
MarkIndexLocal(ifirst1, i) == i

MarkIndex(ifirst1, i) == ifirst1 + i

\* lines 223-243 from i on: has_neighbor after the loop over the primary cell
RECURSIVE OuterLoop(_, _, _, _, _, _, _, _, _)
OuterLoop(h, ifirst1, Ni, i, ifirst2, Nj, sh, f, ub) ==
    IF i >= Ni THEN h
    ELSE OuterLoop(
            IF InnerLoop(ifirst1 + i, ifirst2, Nj, 0, sh, f, ub).hit
            THEN [h EXCEPT ![MarkIndex(ifirst1, i)] = 1]
            ELSE h,
            ifirst1, Ni, i + 1, ifirst2, Nj, sh, f, ub)

\* the pairs the loops of lines 223-243 compare during one visit
Comparisons(ifirst1, Ni, ifirst2, Nj, sh, f, ub, visit) ==
    { [i |-> ifirst1 + i, j |-> ifirst2 + j, visit |-> visit, sh |-> sh,
       hit |-> IsNeighbor(ifirst1 + i, ifirst2 + j, sh, f, ub)] :
        <<i, j>> \in { ij \in (0..(Ni - 1)) \X (0..(Nj - 1)) :
                        ij[2] < InnerLoop(ifirst1 + ij[1], ifirst2, Nj, 0, sh, f, ub).n } }

\* line 150: range(first_cell1_element, last_cell1_element) is exhausted
Cell1LoopDoneEarly(c, last) == c >= last - 1

Cell1LoopDone(c, last) == c >= last

\* lines 245-257: invert and undo the sort
AssembleSorted(h) == [o \in DOMAIN h |-> IF h[o] = 0 THEN 1 ELSE 0]

Assemble(h) ==
    [o \in DOMAIN h |->
        IF \E s \in DOMAIN h : h[s] = 0 /\ double_mesh.mesh1.idx_sorted[s] = o
        THEN 1 ELSE 0]

----------------------------------------------------------------------------
(* Actions                                                                 *)

ResetHistory ==
    /\ nvisit' = 0
    /\ scan_cell' = 0 - 1
    /\ scanned' = {}
    /\ compared' = {}

\* lines 81-148, a known id
Call ==
    /\ pc = "call"
    /\ return_conditional_function(weight_func_idin) # "raise"
    /\ wfunc' = return_conditional_function(weight_func_idin)
    /\ garbage' = 0
    /\ has_neighbor' = Zeros(Npts1)
    /\ icell1' = cell1_tuple[1]
    /\ pc' = "cells"
    /\ ResetHistory
    /\ UNCHANGED <<inputs, caller, nonPBC, new_is_isolated>>

\* lines 84 and 280: the ValueError reaches the caller of the engine
CallRaises ==
    /\ pc = "call"
    /\ return_conditional_function(weight_func_idin) = "raise"
    /\ pc' = "ValueError"
    /\ UNCHANGED <<inputs, caller, history, wfunc, garbage, has_neighbor, icell1, nonPBC,
                   new_is_isolated>>

\* lines 84 and 280: return_conditional_function is a cdef function that
\* returns a C pointer and declares no exception value: built without implicit
\* exception propagation, the ValueError is reported as unraisable, the
\* function returns a null pointer and the engine goes on
CallUnraisable ==
    /\ pc = "call"
    /\ return_conditional_function(weight_func_idin) = "raise"
    /\ wfunc' = NULL
    /\ garbage' \in {0, 1}
    /\ has_neighbor' = Zeros(Npts1)
    /\ icell1' = cell1_tuple[1]
    /\ pc' = "cells"
    /\ ResetHistory
    /\ UNCHANGED <<inputs, caller, nonPBC, new_is_isolated>>

\* lines 150-164, Ni = 0
SkipCell1 ==
    /\ pc = "cells"
    /\ ~Cell1LoopDone(icell1, cell1_tuple[2])
    /\ cell1_indices[icell1 + 1] - cell1_indices[icell1] = 0
    /\ icell1' = icell1 + 1
    /\ UNCHANGED <<inputs, caller, history, pc, wfunc, garbage, has_neighbor, nonPBC,
                   new_is_isolated>>

\* lines 150-178, Ni > 0
BeginCell1 ==
    /\ pc = "cells"
    /\ ~Cell1LoopDone(icell1, cell1_tuple[2])
    /\ cell1_indices[icell1 + 1] - cell1_indices[icell1] > 0
    /\ nonPBC' = [a \in 1..3 |-> leftmost(Cell1Coords(icell1)[a], a)]
    /\ pc' = "scan"
    /\ scan_cell' = icell1
    /\ scanned' = {}
    /\ UNCHANGED <<inputs, caller, nvisit, compared, wfunc, garbage, has_neighbor, icell1,
                   new_is_isolated>>

\* lines 178-243: one pass of the body of the innermost cell loop
VisitCell2 ==
    /\ pc = "scan"
    /\ LET ifirst1 == cell1_indices[icell1]
           Ni == cell1_indices[icell1 + 1] - ifirst1
           sh == [a \in 1..3 |-> shift(nonPBC[a], a)]
           icell2 == Cell2Index(nonPBC)
           ifirst2 == cell2_indices[icell2]
           Nj == cell2_indices[icell2 + 1] - ifirst2
           next == NextRaw(icell1, nonPBC)
       IN /\ has_neighbor' = OuterLoop(has_neighbor, ifirst1, Ni, 0, ifirst2, Nj,
                                       sh, wfunc, garbage)
          /\ compared' = compared \cup
                Comparisons(ifirst1, Ni, ifirst2, Nj, sh, wfunc, garbage, nvisit)
          /\ scanned' = scanned \cup {[raw |-> nonPBC, icell2 |-> icell2, visit |-> nvisit]}
          /\ nvisit' = nvisit + 1
          /\ IF next = <<>>
             THEN /\ pc' = "cells"
                  /\ icell1' = icell1 + 1
                  /\ nonPBC' = nonPBC
             ELSE /\ nonPBC' = next
                  /\ UNCHANGED <<pc, icell1>>
    /\ UNCHANGED <<inputs, caller, scan_cell, wfunc, garbage, new_is_isolated>>

\* line 239 with wfunc null: the call does not come back
VisitCell2Fault ==
    /\ pc = "scan"
    /\ wfunc = NULL
    /\ LET icell2 == Cell2Index(nonPBC)
       IN cell2_indices[icell2 + 1] - cell2_indices[icell2] > 0
    /\ pc' = "fault"
    /\ UNCHANGED <<inputs, caller, history, wfunc, garbage, has_neighbor, icell1, nonPBC,
                   new_is_isolated>>

\* lines 245-257
Return ==
    /\ pc = "cells"
    /\ Cell1LoopDone(icell1, cell1_tuple[2])
    /\ new_is_isolated' = Assemble(has_neighbor)
    /\ pc' = "returned"
    /\ UNCHANGED <<inputs, caller, history, wfunc, garbage, has_neighbor, icell1, nonPBC>>

\* the caller keeps the result and calls the engine on its next work range
NextInvocation ==
    /\ pc = "returned"
    /\ pending # <<>>
    /\ returned' = Append(returned, [range |-> cell1_tuple, result |-> new_is_isolated])
    /\ cell1_tuple' = Head(pending)
    /\ pending' = Tail(pending)
    /\ pc' = "call"
    /\ UNCHANGED <<inputs, history, wfunc, garbage, has_neighbor, icell1, nonPBC, new_is_isolated>>

Next ==
    \/ Call
    \/ CallRaises
    \/ CallUnraisable
    \/ SkipCell1
    \/ BeginCell1
    \/ VisitCell2
    \/ VisitCell2Fault
    \/ Return
    \/ NextInvocation

----------------------------------------------------------------------------
(* Initial states: the inputs of the engine                                *)

AxisPeriod(shape, a) == PeriodOf(shape)[a]

\* positions of the box with at most one non-zero coordinate, and the far corner
Sites(shape) ==
    { <<x, 0, 0>> : x \in 0..(AxisPeriod(shape, 1) - 1) }
    \cup { <<0, y, 0>> : y \in 0..(AxisPeriod(shape, 2) - 1) }
    \cup { <<0, 0, z>> : z \in 0..(AxisPeriod(shape, 3) - 1) }
    \cup { <<AxisPeriod(shape, 1) - 1, AxisPeriod(shape, 2) - 1, AxisPeriod(shape, 3) - 1>> }

Arrays(n, S) == [0..(n - 1) -> S]
Rank(site) == site[1] * 100 + site[2] * 10 + site[3]
Vec(w) == [k \in 0..0 |-> w]
NumCells1(shape) == shape.n1[1] * shape.n1[2] * shape.n1[3]

SortOrders(shape, pts, mesh) ==
    LET divs == IF mesh = 1 THEN shape.n1
                ELSE [a \in 1..3 |-> shape.n1[a] * shape.ratio[a]]
        size == IF mesh = 1 THEN [a \in 1..3 |-> shape.ratio[a] * shape.cell2[a]]
                ELSE shape.cell2
        ids == [p \in DOMAIN pts |-> CellOf(pts[p][1], pts[p][2], pts[p][3], divs, size)]
    IN { perm \in [DOMAIN pts -> DOMAIN pts] : IsSortOrder(perm, ids) }

InitFrom(shape, PBCs, pts1, rp, pimax, w1, pts2, w2, id, perm1, perm2, ranges) ==
    /\ x1in = [p \in DOMAIN pts1 |-> pts1[p][1]]
    /\ y1in = [p \in DOMAIN pts1 |-> pts1[p][2]]
    /\ z1in = [p \in DOMAIN pts1 |-> pts1[p][3]]
    /\ x2in = [p \in DOMAIN pts2 |-> pts2[p][1]]
    /\ y2in = [p \in DOMAIN pts2 |-> pts2[p][2]]
    /\ z2in = [p \in DOMAIN pts2 |-> pts2[p][3]]
    /\ weights1in = [p \in DOMAIN w1 |-> Vec(w1[p])]
    /\ weights2in = [p \in DOMAIN w2 |-> Vec(w2[p])]
    /\ weight_func_idin = id
    /\ rp_max = rp
    /\ pi_max = pimax
    /\ double_mesh = RectangularDoubleMesh(shape, PBCs,
            [p \in DOMAIN pts1 |-> pts1[p][1]], [p \in DOMAIN pts1 |-> pts1[p][2]],
            [p \in DOMAIN pts1 |-> pts1[p][3]],
            [p \in DOMAIN pts2 |-> pts2[p][1]], [p \in DOMAIN pts2 |-> pts2[p][2]],
            [p \in DOMAIN pts2 |-> pts2[p][3]], rp, pimax, perm1, perm2)
    /\ cell1_tuple = Head(ranges)
    /\ pending = Tail(ranges)
    /\ returned = <<>>
    /\ pc = "call"
    /\ wfunc = NULL
    /\ garbage = 0
    /\ has_neighbor = Zeros(Len0(pts1))
    /\ icell1 = 0
    /\ nonPBC = <<0, 0, 0>>
    /\ new_is_isolated = Zeros(Len0(pts1))
    /\ nvisit = 0
    /\ scan_cell = 0 - 1
    /\ scanned = {}
    /\ compared = {}

FullRange(shape) == <<0, NumCells1(shape)>>
Const(D, v) == [p \in D |-> v]

\* the three calls of a caller that splits the primary cells at m
SplitCalls(shape, m) == << <<0, m>>, <<m, NumCells1(shape)>>, FullRange(shape) >>

\* one primary point, at most one secondary point, every projected radius,
\* the smallest and the largest half-length, two shapes
InitPair ==
    \E shape \in {ShapeB, ShapeC}, PBCs \in {0, 1}, n2 \in 0..1 :
    \E pts1 \in Arrays(1, Sites(shape)), rp \in Arrays(1, Radii),
       pimax \in Arrays(1, {1, MaxRadius}),
       pts2 \in Arrays(n2, Sites(shape)) :
    \E perm1 \in SortOrders(shape, pts1, 1), perm2 \in SortOrders(shape, pts2, 2) :
        InitFrom(shape, PBCs, pts1, rp, pimax, Const(DOMAIN pts1, 0), pts2,
                 Const(DOMAIN pts2, 0), 0, perm1, perm2, <<FullRange(shape)>>)

\* one primary point with the largest radii, two secondary points
InitCrowd ==
    \E PBCs \in {0, 1} :
    \E pts1 \in Arrays(1, Sites(ShapeA)),
       pts2 \in { a \in Arrays(2, Sites(ShapeA)) : Rank(a[0]) <= Rank(a[1]) } :
    \E perm1 \in SortOrders(ShapeA, pts1, 1), perm2 \in SortOrders(ShapeA, pts2, 2) :
        InitFrom(ShapeA, PBCs, pts1, Const(DOMAIN pts1, MaxRadius),
                 Const(DOMAIN pts1, MaxRadius), Const(DOMAIN pts1, 0), pts2,
                 Const(DOMAIN pts2, 0), 0, perm1, perm2, <<FullRange(ShapeA)>>)

\* one pair of points, every known conditional function, every pair of weights
InitMarked ==
    \E id \in 0..6, w1 \in Arrays(1, Weights), w2 \in Arrays(1, Weights) :
    \E pts2 \in Arrays(1, Sites(ShapeA)) :
        InitFrom(ShapeA, 0, Const(0..0, <<1, 0, 0>>), Const(0..0, MaxRadius),
                 Const(0..0, MaxRadius), w1, pts2, w2, id, Const(0..0, 0),
                 Const(0..0, 0), <<FullRange(ShapeA)>>)

\* an id return_conditional_function does not know
InitUnknownId ==
    \E id \in FuncIds \ (0..6), n2 \in 0..1 :
    \E pts2 \in Arrays(n2, Sites(ShapeA)) :
    \E perm2 \in SortOrders(ShapeA, pts2, 2) :
        InitFrom(ShapeA, 0, Const(0..0, <<1, 0, 0>>), Const(0..0, MaxRadius),
                 Const(0..0, MaxRadius), Const(0..0, 0), pts2, Const(DOMAIN pts2, 0), id,
                 Const(0..0, 0), perm2, <<FullRange(ShapeA)>>)

\* two primary points, the primary cells split between two calls, then one
\* call over all of them
InitSplit ==
    \E m \in 0..NumCells1(ShapeA) :
    \E pts1 \in { a \in Arrays(2, Sites(ShapeA)) : a[1] \in {<<0, 0, 0>>, <<3, 0, 0>>} },
       pts2 \in Arrays(1, {<<0, 0, 0>>, <<1, 0, 0>>, <<2, 0, 0>>, <<3, 0, 0>>, <<0, 1, 0>>}) :
    \E perm1 \in SortOrders(ShapeA, pts1, 1) :
        InitFrom(ShapeA, 1, pts1, Const(DOMAIN pts1, MaxRadius),
                 Const(DOMAIN pts1, MaxRadius), Const(DOMAIN pts1, 0), pts2,
                 Const(DOMAIN pts2, 0), 0, perm1, Const(0..0, 0),
                 SplitCalls(ShapeA, m))

\* two primary points with radii and weights of their own, in either order
InitShuffled ==
    \E pts1 \in Arrays(2, {<<0, 0, 0>>, <<1, 0, 0>>, <<3, 0, 0>>}),
       rp \in Arrays(2, {1, MaxRadius}), w1 \in Arrays(2, Weights),
       pts2 \in Arrays(1, {<<0, 0, 0>>, <<2, 0, 0>>, <<0, 1, 0>>}) :
    \E perm1 \in SortOrders(ShapeA, pts1, 1) :
        InitFrom(ShapeA, 1, pts1, rp, Const(DOMAIN pts1, MaxRadius), w1, pts2,
                 Const(DOMAIN pts2, 0), 1, perm1, Const(0..0, 0),
                 <<FullRange(ShapeA)>>)

Init ==
    \/ InitPair
    \/ InitCrowd
    \/ InitMarked
    \/ InitUnknownId
    \/ InitSplit
    \/ InitShuffled

Spec == Init /\ [][Next]_vars

----------------------------------------------------------------------------
(* What the claims speak of, in the caller's terms                         *)

idx_sorted1 == double_mesh.mesh1.idx_sorted
idx_sorted2 == double_mesh.mesh2.idx_sorted
Returned == pc = "returned"
WholeMesh == cell1_tuple = <<0, double_mesh.mesh1.ncells>>
KnownId == weight_func_idin \in 0..6
\* the scan of primary cell scan_cell is over; `compared` holds every pair
\* compared so far in this call
ScanOver == pc \in {"cells", "returned"} /\ scan_cell >= 0
ScannedCells == { [raw |-> v.raw, icell2 |-> v.icell2] : v \in scanned }

\* the table of conditions by id
TableCondition(id, w1, w2) ==
    CASE id = 0 -> TRUE
      [] id = 1 -> w1[0] > w2[0]
      [] id = 2 -> w1[0] < w2[0]
      [] id = 3 -> w1[0] = w2[0]
      [] id = 4 -> w1[0] # w2[0]
      [] id = 5 -> w1[0] >= w2[0]
      [] id = 6 -> w1[0] <= w2[0]

\* squared separations of primary point o and secondary point q (caller's
\* indices), the secondary point moved by sh
DxySq(o, q, sh) ==
    (x1in[o] - (x2in[q] + sh[1])) * (x1in[o] - (x2in[q] + sh[1]))
    + (y1in[o] - (y2in[q] + sh[2])) * (y1in[o] - (y2in[q] + sh[2]))
DzSq(o, q, sh) == (z1in[o] - (z2in[q] + sh[3])) * (z1in[o] - (z2in[q] + sh[3]))

InCylinder(o, q, sh) ==
    /\ DxySq(o, q, sh) < rp_max[o] * rp_max[o]
    /\ DzSq(o, q, sh) < pi_max[o] * pi_max[o]
    /\ DxySq(o, q, sh) + DzSq(o, q, sh) > 0

Counts(o, q, sh) ==
    /\ InCylinder(o, q, sh)
    /\ TableCondition(weight_func_idin, weights1in[o], weights2in[q])

NoShift == <<0, 0, 0>>
OnePeriod(a, d) == [b \in 1..3 |-> IF b = a THEN d * period[a] ELSE 0]
Images ==
    { <<a * double_mesh.xperiod, b * double_mesh.yperiod, c * double_mesh.zperiod>> :
        a \in {0 - 1, 0, 1}, b \in {0 - 1, 0, 1}, c \in {0 - 1, 0, 1} }

----------------------------------------------------------------------------
\* C1: without periodicity, over the whole mesh, a primary point is returned 0
\* if and only if some secondary point passes both strict distance tests, the
\* predicate and the non-zero separation test on unshifted coordinates;
\* otherwise it is returned 1.
C1_NoPeriodicity ==
    (Returned /\ WholeMesh /\ KnownId /\ double_mesh.PBCs = 0) =>
        \A o \in DOMAIN x1in :
            /\ new_is_isolated[o] \in {0, 1}
            /\ new_is_isolated[o] = 0 <=> \E q \in DOMAIN x2in : Counts(o, q, NoShift)

\* a primary point found non-isolated through a secondary point of another
\* secondary cell while a second secondary point coincides with it
C1_Witness ==
    /\ Returned /\ WholeMesh /\ KnownId /\ double_mesh.PBCs = 0
    /\ \E o \in DOMAIN x1in, q, r \in DOMAIN x2in :
        /\ new_is_isolated[o] = 0
        /\ Counts(o, q, NoShift)
        /\ x2in[q] \div double_mesh.mesh2.xcell_size # x1in[o] \div double_mesh.mesh2.xcell_size
        /\ x2in[r] = x1in[o] /\ y2in[r] = y1in[o] /\ z2in[r] = z1in[o]

\* C2: with periodicity, over the whole mesh, a secondary point that passes the
\* tests once moved by one period along one axis, in either direction, makes
\* the primary point non-isolated; without periodicity a primary point no
\* secondary point passes the tests for on unshifted coordinates is isolated.
C2_Wraparound ==
    (Returned /\ WholeMesh /\ KnownId) =>
        \A o \in DOMAIN x1in :
            /\ double_mesh.PBCs = 1 =>
                 \A q \in DOMAIN x2in, a \in 1..3, d \in {0 - 1, 1} :
                    Counts(o, q, OnePeriod(a, d)) => new_is_isolated[o] = 0
            /\ (double_mesh.PBCs = 0 /\ \A q \in DOMAIN x2in : ~Counts(o, q, NoShift))
                    => new_is_isolated[o] = 1

\* a neighbour that is one only across the faces of the box
C2_Witness ==
    /\ Returned /\ WholeMesh /\ KnownId /\ double_mesh.PBCs = 1
    /\ \E o \in DOMAIN x1in :
        /\ new_is_isolated[o] = 0
        /\ \A q \in DOMAIN x2in : ~Counts(o, q, NoShift)
        /\ \E q \in DOMAIN x2in : Counts(o, q, OnePeriod(3, 1))

\* C3: the element-wise AND of the arrays returned for [0, m) and [m, ncells)
\* is the array returned for [0, ncells).
C3_SplitConsistency ==
    (/\ Returned /\ WholeMesh /\ Len(returned) = 2
     /\ returned[1].range[1] = 0
     /\ returned[1].range[2] = returned[2].range[1]
     /\ returned[2].range[2] = double_mesh.mesh1.ncells) =>
        \A o \in DOMAIN x1in :
            new_is_isolated[o] =
                (IF returned[1].result[o] = 1 /\ returned[2].result[o] = 1 THEN 1 ELSE 0)

\* both parts of a split found a neighbour, each for a point of its own
C3_Witness ==
    /\ Returned /\ WholeMesh /\ Len(returned) = 2
    /\ returned[1].range = <<0, 1>> /\ returned[2].range = <<1, 2>>
    /\ \E o, p \in DOMAIN x1in :
        /\ returned[1].result[o] = 0 /\ returned[2].result[o] = 1
        /\ returned[1].result[p] = 1 /\ returned[2].result[p] = 0
        /\ new_is_isolated[o] = 0 /\ new_is_isolated[p] = 0

\* C4: the returned array is in the caller's order, as long as x1in, of zeros
\* and ones; it is 1 at idx_sorted[s] exactly when has_neighbor[s] is 0; every
\* pair is tested with the radii and weights of the points idx_sorted names; so
\* over the whole mesh the flag of a point depends on the points only, not on
\* their places in the arrays.
C4_CallerOrder ==
    /\ (ScanOver /\ wfunc # NULL) =>
        \A e \in compared :
            e.hit <=> Counts(idx_sorted1[e.i], idx_sorted2[e.j], [a \in 1..3 |-> e.sh[a]])
    /\ Returned =>
        /\ DOMAIN new_is_isolated = DOMAIN x1in
        /\ \A s \in DOMAIN has_neighbor :
            /\ new_is_isolated[idx_sorted1[s]] \in {0, 1}
            /\ new_is_isolated[idx_sorted1[s]] = 1 <=> has_neighbor[s] = 0
        /\ (WholeMesh /\ KnownId) =>
            \A o \in DOMAIN x1in :
                new_is_isolated[o] = 0 <=>
                    \E q \in DOMAIN x2in, im \in Images :
                        Counts(o, q, [a \in 1..3 |-> im[a] * double_mesh.PBCs])

\* the caller's second point is first in sorted order, and its flag differs
\* from the first point's
C4_Witness ==
    /\ Returned /\ WholeMesh /\ Npts1 = 2
    /\ idx_sorted1[0] = 1
    /\ rp_max[0] # rp_max[1]
    /\ new_is_isolated[0] = 1 /\ new_is_isolated[1] = 0

\* squared separations of a compared pair, from the sorted arrays and the
\* shift of its visit
PairDxySq(e) ==
    ((x1[e.i] - e.sh[1]) - x2[e.j]) * ((x1[e.i] - e.sh[1]) - x2[e.j])
    + ((y1[e.i] - e.sh[2]) - y2[e.j]) * ((y1[e.i] - e.sh[2]) - y2[e.j])
PairDzSq(e) == ((z1[e.i] - e.sh[3]) - z2[e.j]) * ((z1[e.i] - e.sh[3]) - z2[e.j])
RpSq(e) == rp_max[idx_sorted1[e.i]] * rp_max[idx_sorted1[e.i]]
PiSq(e) == pi_max[idx_sorted1[e.i]] * pi_max[idx_sorted1[e.i]]
OnBoundary(e) == PairDxySq(e) = RpSq(e) \/ PairDzSq(e) = PiSq(e)

\* C5: a pair with dxy_sq equal to the squared projected radius, or dz_sq equal
\* to the squared half-length, never counts; a primary point all of whose
\* compared pairs lie on the boundary of its cylinder is returned 1.
C5_StrictBoundary ==
    /\ \A e \in compared : e.hit => ~OnBoundary(e)
    /\ Returned =>
        \A s \in DOMAIN has_neighbor :
            (\A e \in compared : e.i = s => OnBoundary(e))
                => new_is_isolated[idx_sorted1[s]] = 1

\* a secondary point exactly at the projected radius, inside the half-length,
\* and the primary point returned isolated
C5_Witness ==
    /\ Returned /\ WholeMesh /\ wfunc = "trivial"
    /\ \E e \in compared :
        /\ PairDxySq(e) = RpSq(e) /\ PairDzSq(e) < PiSq(e)
        /\ \A f \in compared : f.i = e.i => OnBoundary(f)
        /\ new_is_isolated[idx_sorted1[e.i]] = 1

\* C6: for each id in 0..6, a compared pair inside the cylinder at non-zero
\* separation counts if and only if the condition of the table for that id
\* holds of the weights of the primary and of the secondary point.
C6_PredicateGating ==
    (KnownId /\ ScanOver) =>
        \A e \in compared :
            (PairDxySq(e) < RpSq(e) /\ PairDzSq(e) < PiSq(e) /\ PairDxySq(e) + PairDzSq(e) > 0)
                => (e.hit <=> TableCondition(weight_func_idin, weights1in[idx_sorted1[e.i]],
                                             weights2in[idx_sorted2[e.j]]))

\* greater-than: a pair inside the cylinder counts with w1 > w2
C6_Witness ==
    /\ Returned /\ weight_func_idin = 1
    /\ \E e \in compared :
        /\ e.hit
        /\ weights1in[idx_sorted1[e.i]][0] > weights2in[idx_sorted2[e.j]][0]
        /\ new_is_isolated[idx_sorted1[e.i]] = 0

\* C7: an id outside 0..6 ends the call in the error before any primary cell is
\* visited or pair compared, and nothing is returned; an id in 0..6 raises no
\* error.
C7_UnknownIdFailsFast ==
    /\ ~KnownId => (pc \in {"call", "ValueError"} /\ nvisit = 0 /\ compared = {})
    /\ KnownId => pc # "ValueError"

\* the sorted positions of the primary points of the cells of the work range
InWorkRange(s) ==
    /\ cell1_indices[cell1_tuple[1]] <= s
    /\ s < cell1_indices[cell1_tuple[2]]

Disjoint(r1, r2) == r1[2] <= r2[1] \/ r2[2] <= r1[1]

\* C8: has_neighbor is set only at sorted positions of the cells of the work
\* range, a point of a cell outside the range is returned 1, two calls on
\* disjoint ranges never return 0 for the same point, and no argument changes.
C8_FrameInv ==
    /\ pc \in {"cells", "scan", "returned"} =>
        \A s \in DOMAIN has_neighbor : has_neighbor[s] = 1 => InWorkRange(s)
    /\ Returned =>
        \A s \in DOMAIN has_neighbor :
            ~InWorkRange(s) => new_is_isolated[idx_sorted1[s]] = 1
    /\ Returned =>
        \A k \in 1..Len(returned) :
            Disjoint(returned[k].range, cell1_tuple) =>
                \A o \in DOMAIN x1in : ~(returned[k].result[o] = 0 /\ new_is_isolated[o] = 0)
    /\ \A k, l \in 1..Len(returned) :
            Disjoint(returned[k].range, returned[l].range) =>
                \A o \in DOMAIN x1in : ~(returned[k].result[o] = 0 /\ returned[l].result[o] = 0)

C8_Frame == []C8_FrameInv /\ [][inputs' = inputs]_vars

\* a call on the second primary cell alone: the point of the first cell has a
\* neighbour and is returned 1, the point of the second is returned 0
C8_Witness ==
    /\ Returned /\ cell1_tuple = <<1, 2>> /\ Npts1 = 2
    /\ new_is_isolated[idx_sorted1[0]] = 1 /\ new_is_isolated[idx_sorted1[1]] = 0
    /\ ~InWorkRange(0)
    /\ \E q \in DOMAIN x2in, im \in Images : Counts(idx_sorted1[0], q, im)

\* the coordinates of a primary cell and the window the sources give for it
CoordsOf(c) ==
    CHOOSE t \in (0..(num_x1divs - 1)) \X (0..(num_y1divs - 1)) \X (0..(num_z1divs - 1)) :
        t[1] * (num_y1divs * num_z1divs) + t[2] * num_z1divs + t[3] = c
Ratio(a) ==
    <<double_mesh.mesh2.num_xdivs \div double_mesh.mesh1.num_xdivs,
      double_mesh.mesh2.num_ydivs \div double_mesh.mesh1.num_ydivs,
      double_mesh.mesh2.num_zdivs \div double_mesh.mesh1.num_zdivs>>[a]
Covering(a) ==
    <<CeilDiv(double_mesh.search_xlength, double_mesh.mesh2.xcell_size),
      CeilDiv(double_mesh.search_ylength, double_mesh.mesh2.ycell_size),
      CeilDiv(double_mesh.search_zlength, double_mesh.mesh2.zcell_size)>>[a]
Lo(c, a) == CoordsOf(c)[a] * Ratio(a) - Covering(a)
Hi(c, a) == (CoordsOf(c)[a] + 1) * Ratio(a) + Covering(a)
Wrapped(raw) ==
    (raw[1] % double_mesh.mesh2.num_xdivs)
        * (double_mesh.mesh2.num_ydivs * double_mesh.mesh2.num_zdivs)
    + (raw[2] % double_mesh.mesh2.num_ydivs) * double_mesh.mesh2.num_zdivs
    + (raw[3] % double_mesh.mesh2.num_zdivs)
Visits(X, Y, Z) ==
    { [raw |-> <<a, b, c>>, icell2 |-> Wrapped(<<a, b, c>>)] : a \in X, b \in Y, c \in Z }

\* C9 as stated: the raw coordinates scanned on each axis are leftmost through
\* rightmost, both included.
C9_InclusiveWindow ==
    ScanOver =>
        ScannedCells = Visits(Lo(scan_cell, 1)..Hi(scan_cell, 1),
                              Lo(scan_cell, 2)..Hi(scan_cell, 2),
                              Lo(scan_cell, 3)..Hi(scan_cell, 3))

\* C9, amended: the raw coordinates scanned on each axis are leftmost through
\* rightmost - 1; every triple of them is visited, with the cell index of its
\* coordinates reduced modulo the division counts, and none twice.
C9_HalfOpenWindow ==
    ScanOver =>
        /\ ScannedCells = Visits(Lo(scan_cell, 1)..(Hi(scan_cell, 1) - 1),
                                 Lo(scan_cell, 2)..(Hi(scan_cell, 2) - 1),
                                 Lo(scan_cell, 3)..(Hi(scan_cell, 3) - 1))
        /\ Cardinality(scanned) = Cardinality(ScannedCells)

\* the scan of a primary cell with a non-zero coordinate is over, on a mesh
\* with two secondary divisions per primary division along z
C9_Witness ==
    /\ ScanOver /\ scan_cell > 0 /\ Ratio(3) = 2
    /\ \E v \in scanned : v.raw[3] < 0
    /\ \E v \in scanned : v.raw[3] >= double_mesh.mesh2.num_zdivs

\* C10 as stated: after its first qualifying pair a primary point is compared
\* with no secondary point of a later visit.
C10_SkipsLaterCells ==
    \A e \in compared : e.hit => \A f \in compared : f.i = e.i => f.visit <= e.visit

\* C10, amended: a point is found on a qualifying pair and only then, the flag
\* is never reset, and the scan of the secondary cell stops for that point at
\* that pair; in every later visit of a non-empty secondary cell the points of
\* the primary cell, found or not, are compared again from the first point of
\* that cell on.
C10_BreaksInnerLoopOnly ==
    /\ \A e \in compared : e.hit => has_neighbor[e.i] = 1
    /\ \A s \in DOMAIN has_neighbor :
          (has_neighbor[s] = 1 /\ wfunc # NULL) =>
              \E e \in compared : e.i = s /\ e.hit /\
                  Counts(idx_sorted1[s], idx_sorted2[e.j], [a \in 1..3 |-> e.sh[a]])
    /\ \A e \in compared :
          e.hit => \A f \in compared : ~(f.i = e.i /\ f.visit = e.visit /\ f.j > e.j)
    /\ ScanOver =>
          \A v \in scanned :
              cell2_indices[v.icell2] < cell2_indices[v.icell2 + 1] =>
                  \A s \in cell1_indices[scan_cell]..(cell1_indices[scan_cell + 1] - 1) :
                      \E e \in compared :
                          e.i = s /\ e.visit = v.visit /\ e.j = cell2_indices[v.icell2]

\* a qualifying pair ended the scan of a secondary cell before its last point,
\* and the same primary point was compared again in a later visit
C10_Witness ==
    \E e, f \in compared :
        /\ e.hit /\ has_neighbor[e.i] = 1
        /\ \E c \in 0..(double_mesh.mesh2.ncells - 1) :
              /\ cell2_indices[c] <= e.j
              /\ e.j + 1 < cell2_indices[c + 1]
              /\ \A g \in compared : ~(g.i = e.i /\ g.visit = e.visit /\ g.j = e.j + 1)
        /\ f.i = e.i /\ f.visit > e.visit

====
